---- MODULE Spec2Model ----
(***************************************************************************)
(* Model of monitor_logs_ingestion.py: the remote setup sequence of main() *)
(* (probe, download, link farm, agent restart, grace delay), the           *)
(* Elasticsearch connection and the ingestion monitor                      *)
(* monitor_elasticsearch(), with the process exit code and the SSH         *)
(* connection as observable results; and of the two stand-alone pollers    *)
(* check_s3_data.py and check_elastic_data.py.                             *)
(***************************************************************************)
EXTENDS Integers, Sequences, FiniteSets, TLC

\* ------------------------------------------------------------------ bounds
\* Largest document count the index can hold in the model.
MaxCount == 2
\* Monitoring sessions are followed for this many seconds after they start.
MaxTime == 4
\* Largest time (seconds) a tick takes beyond the interval sleep: query
\* latency plus oversleep of time.sleep.
MaxLatency == 1
\* Largest number of failed count queries in one session.
MaxFailures == 1
\* Largest number of files found under log_dir on the remote host.
MaxFiles == 3
\* Largest number of objects under the prefix of the S3 bucket.
MaxKeys == 2
\* LastModified values of S3 objects are 1..MaxStamp.
MaxStamp == 2
\* Objects on one page of the list_objects_v2 paginator.
PageSize == 1

\* ------------------------------------------------------- program constants
\* time.sleep(10) after the agent restart.
GraceDelay == 10
\* check_s3_data.py: wait_time = min(10, remaining)
S3PollInterval == 10
\* check_elastic_data.py: wait_time = min(10, remaining)
EcPollInterval == 10

\* -------------------------------------------------------------- the inputs
\* --stable-time and --check-interval values explored (seconds).
StableTimes == 0..2
CheckIntervals == 1..2
Counts == 0..MaxCount

\* ----------------------------------------------------------------- strings
\* Python str values are modelled as sequences of characters, so that the
\* substring test of check_log_download_status is computed, not assumed.
StrDownloaded == <<"D", "o", "w", "n", "l", "o", "a", "d", "e", "d">>
StrNotDownloaded == <<"N", "o", "t", " ">> \o StrDownloaded
StrNewline == <<"\n">>
StrEmpty == << >>
\* Python's None where a str may stand; kept apart from every str.
PyNone == <<"None">>
\* An index pattern is kept as the pieces its f-string joins.
StrFilebeatAll == <<"filebeat-*">>

\* --log-type values: the six the program names and one it does not.
LogTypes == {"linux", "windows", "mac", "ssh", "apache", "all", "nginx"}
\* --index values: absent, empty, and a pattern.
IndexArgs == {PyNone, StrEmpty, <<"logs-*">>}
\* Days on which the program may run (strftime("%Y.%m.%d")).
Dates == {"2025.01.31", "2025.02.01"}

StrSplitLogs == <<"s", "p", "l", "i", "t", "_", "l", "o", "g", "s">>
StrOriginalSuffix == <<".", "o", "r", "i", "g", "i", "n", "a", "l">>

\* Python's `needle in hay` on str.
Contains(needle, hay) ==
    \E i \in 1..(Len(hay) - Len(needle) + 1) :
        SubSeq(hay, i, i + Len(needle) - 1) = needle

\* ----------------------------------------------------- the remote host
\* A file under log_dir is its path below log_dir (a sequence of names,
\* each a string) and its type as `find -type` sees it: "f" regular file,
\* "l" symbolic link.
NameXaa == <<"x", "a", "a">>
NameXab == <<"x", "a", "b">>
NameLog == <<"a", ".", "l", "o", "g">>
DirLinux == <<"l", "i", "n", "u", "x">>
DirApache == <<"a", "p", "a", "c", "h", "e">>
DirOld == <<"o", "l", "d">>

\* The files a host may hold: two split files with the same base name in
\* different directories, a third split file, the kept original of a split
\* log, a regular file outside any split_logs directory and a symbolic
\* link inside one.
HostFiles ==
    { [path |-> <<DirLinux, StrSplitLogs, NameXaa>>, type |-> "f"],
      [path |-> <<DirApache, StrSplitLogs, NameXaa>>, type |-> "f"],
      [path |-> <<DirLinux, StrSplitLogs, NameXab>>, type |-> "f"],
      [path |-> <<DirLinux, StrSplitLogs, NameLog \o StrOriginalSuffix>>,
       type |-> "f"],
      [path |-> <<DirLinux, NameLog>>, type |-> "f"],
      [path |-> <<DirLinux, StrSplitLogs, NameXab>>, type |-> "l"] }

\* A host's files in the order in which `find` lists them (directory
\* order: any order, the same for as long as the files do not change).
Hosts ==
    UNION { { fs \in [1..n -> HostFiles] :
                \A i, j \in 1..n : i # j => fs[i].path # fs[j].path } :
            n \in 0..MaxFiles }

\* The host on which the monitoring runs of Spec take place.
ReferenceHost ==
    << [path |-> <<DirLinux, StrSplitLogs, NameXaa>>, type |-> "f"],
       [path |-> <<DirLinux, StrSplitLogs, NameLog \o StrOriginalSuffix>>,
        type |-> "f"],
       [path |-> <<DirApache, StrSplitLogs, NameXaa>>, type |-> "f"] >>

\* The link farm {log_dir}/logstash_input: link name |-> link target.
EmptyFarm == [n \in {} |-> << >>]

\* A farm left by an earlier run over files that are gone since.
StaleFarm ==
    [n \in {NameXaa, NameLog} |-> <<DirOld, StrSplitLogs, n>>]

InitialFarms == {EmptyFarm, StaleFarm}

VARIABLES
    pc,              \* position of main()
    force_download,  \* args.force_download
    stable_time,     \* args.stable_time
    check_interval,  \* args.check_interval
    marker,          \* remote host: {log_dir}/DOWNLOAD_COMPLETE exists
    probe_output,    \* stdout of the probe command
    logs_downloaded, \* main's logs_downloaded
    connect_exit,    \* 0: SSH connected, 1: it failed (-1: none yet)
    probe_exit,      \* exit status of the probe command (-1: none yet)
    download_exit,   \* exit status of the download command
    symlink_exit,    \* exit status of the link-creation command
    restart_exit,    \* exit status of the restart command
    log,             \* history: the steps started so far, in order
    ssh_open,        \* the SSH connection is open
    closes,          \* number of ssh_client.close() calls
    es_ok,           \* setup_elasticsearch_client returned a client
    pending,         \* exit code carried by the exception unwinding main
    raised,          \* the exception unwinding main ("none" if none)
    exit_code,       \* exit code of the process (-1: still running)
    now,             \* time.time()
    real_count,      \* documents really in the index pattern
    initial_count, stable_count, stable_since, last_count, max_count,
    current_count,   \* monitor_elasticsearch's locals
    current_bound,   \* current_count has been assigned
    current_time,    \* monitor_elasticsearch's current_time
    new_docs,        \* main's new_docs (the monitor's return value)
    outcome,         \* how the monitor ended
    mon_start,       \* history: time at which monitoring started
    failures,        \* history: failed count queries so far
    init_failed,     \* history: the query for initial_count failed
    last_failed,     \* history: the latest query failed
    nondecr,         \* history: the real count never decreased
    all_initial,     \* history: every in-loop sample equalled initial_count
    static,          \* history: the real count was the same at every query
    inc_time,        \* history: time of the tick that saw the last increase
    seen,            \* history: the values sampled so far
    files,           \* the files under log_dir, in find's order
    farm,            \* the link farm: link name |-> target path
    link_fault,      \* the link command failed for a reason of the host's
    run,             \* which invocation of the program this is (1 or 2)
    first,           \* history: <<what the first invocation left>>, or <<>>
    scripted,        \* the index's counts follow `feed` (else: any counts)
    feed,            \* the real counts the queries will find, in order
    fed,             \* history: number of entries of `feed` sampled
    log_type,        \* args.log_type
    index,           \* args.index
    index_pattern,   \* monitor_elasticsearch's index_pattern (<<>>: unset)
    s3_pc,           \* check_s3_data.py: where main() stands
    s3_wait,         \* args.wait
    s3_count,        \* args.count (-1 until it is read)
    s3_now,          \* time.time()
    s3_start,        \* start_time
    s3_bucket,       \* the objects under the prefix: key |-> LastModified
    s3_initial_keys, \* initial_keys
    s3_wait_time,    \* wait_time
    s3_listed,       \* check_s3_data's `objects` (keys, in order)
    s3_inspected,    \* keys passed to check_object_content, in order
    s3_rc,           \* main's return value (-1: still running)
    s3_polls,        \* history: the polls, <<[at, keys]>>
    s3_keys0,        \* history: the keys in the bucket at the start listing
    s3_list_failed,  \* history: check_s3_data's listing raised ClientError
    ec_pc,           \* check_elastic_data.py: where main() stands
    ec_wait,         \* args.wait
    ec_now,          \* time.time()
    ec_start,        \* start_time
    ec_indices,      \* an index matching the pattern exists
    ec_docs,         \* documents in the matching indices
    ec_wait_time,    \* wait_time
    ec_rc,           \* the process's exit code (-1: still running)
    ec_polls         \* history: the polls, <<[at, indices, docs, raised,
                     \* found]>>

vars == <<pc, force_download, stable_time, check_interval, marker,
          probe_output, logs_downloaded, connect_exit, probe_exit,
          download_exit,
          symlink_exit, restart_exit, log, ssh_open, closes,
          es_ok, pending, raised, exit_code, now, real_count, initial_count,
          stable_count, stable_since, last_count, max_count, current_count,
          current_bound, current_time, new_docs, outcome, mon_start,
          failures, init_failed, last_failed, nondecr, all_initial, static,
          inc_time, seen, files, farm, link_fault, run, first,
          scripted, feed, fed, log_type, index, index_pattern,
          s3_pc, s3_wait, s3_count, s3_now, s3_start, s3_bucket,
          s3_initial_keys, s3_wait_time, s3_listed, s3_inspected, s3_rc,
          s3_polls, s3_keys0, s3_list_failed,
          ec_pc, ec_wait, ec_now, ec_start, ec_indices, ec_docs,
          ec_wait_time, ec_rc, ec_polls>>

argVars == <<force_download, stable_time, check_interval, log_type, index>>
hostVars == <<marker, files>>
farmVars == <<farm, link_fault>>
runVars == <<run, first>>
feedVars == <<scripted, feed>>
s3Vars == <<s3_pc, s3_wait, s3_count, s3_now, s3_start, s3_bucket,
           s3_initial_keys, s3_wait_time, s3_listed, s3_inspected, s3_rc,
           s3_polls, s3_keys0, s3_list_failed>>
ecVars == <<ec_pc, ec_wait, ec_now, ec_start, ec_indices, ec_docs,
           ec_wait_time, ec_rc, ec_polls>>
toolVars == <<s3Vars, ecVars>>
probeVars == <<probe_output, logs_downloaded>>
statusVars == <<connect_exit, probe_exit, download_exit, symlink_exit,
                restart_exit>>
monVars == <<initial_count, stable_count, stable_since, last_count,
             max_count, current_count, current_bound, current_time,
             new_docs, outcome, index_pattern>>
histVars == <<mon_start, failures, init_failed, last_failed, nondecr,
              all_initial, static, inc_time, seen, fed>>

\* check_s3_data.py before main() is entered, on an empty bucket.
InitS3Idle ==
    /\ s3_pc = "start"
    /\ s3_count = -1
    /\ s3_now = 0
    /\ s3_start = 0
    /\ s3_initial_keys = {}
    /\ s3_wait_time = 0
    /\ s3_listed = << >>
    /\ s3_inspected = << >>
    /\ s3_rc = -1
    /\ s3_polls = << >>
    /\ s3_keys0 = {}
    /\ s3_list_failed = FALSE

\* check_elastic_data.py before main() is entered.
InitEcIdle ==
    /\ ec_pc = "connect"
    /\ ec_now = 0
    /\ ec_start = 0
    /\ ec_wait_time = 0
    /\ ec_rc = -1
    /\ ec_polls = << >>

\* The pollers are not run.
ToolsIdle ==
    /\ InitS3Idle
    /\ s3_wait = 0
    /\ s3_bucket = << >>
    /\ InitEcIdle
    /\ ec_wait = 0
    /\ ec_indices = FALSE
    /\ ec_docs = 0

\* The program's own state when main() starts.
InitProcess ==
    /\ probe_output = StrEmpty
    /\ logs_downloaded = FALSE
    /\ connect_exit = -1
    /\ probe_exit = -1
    /\ download_exit = -1
    /\ symlink_exit = -1
    /\ restart_exit = -1
    /\ log = << >>
    /\ ssh_open = FALSE
    /\ closes = 0
    /\ es_ok = FALSE
    /\ pending = -1
    /\ raised = "none"
    /\ exit_code = -1
    /\ now = 0
    /\ real_count = 0
    /\ initial_count = 0
    /\ stable_count = 0
    /\ stable_since = 0
    /\ last_count = 0
    /\ max_count = 0
    /\ current_count = 0
    /\ current_bound = FALSE
    /\ current_time = 0
    /\ new_docs = 0
    /\ outcome = "none"
    /\ mon_start = 0
    /\ failures = 0
    /\ init_failed = FALSE
    /\ last_failed = FALSE
    /\ nondecr = TRUE
    /\ all_initial = TRUE
    /\ static = TRUE
    /\ inc_time = 0
    /\ seen = {}
    /\ link_fault = FALSE
    /\ fed = 0
    /\ index_pattern = << >>

\* One invocation with any arguments, on the reference host with or
\* without the marker file.
Init ==
    /\ InitProcess
    /\ ToolsIdle
    /\ pc = "connect"
    /\ log_type = "linux"
    /\ index = PyNone
    /\ scripted = FALSE
    /\ feed = << >>
    /\ force_download \in BOOLEAN
    /\ stable_time \in StableTimes
    /\ check_interval \in CheckIntervals
    /\ marker \in BOOLEAN
    /\ files = ReferenceHost
    /\ farm = EmptyFarm
    /\ run = 1
    /\ first = << >>

\* ------------------------------------------------------ the remote executor
\* Exit statuses a remote command can return (0, or non-zero).
ExitStatuses == {0, 1}

\* What the probe command of check_log_download_status can give back:
\*   test -f M && echo 'Downloaded' || echo 'Not Downloaded'
\* prints one of the two words and exits 0; a command the remote side could
\* not run, whose echo failed, or whose channel closed without a status
\* (recv_exit_status then gives -1) ends non-zero and prints nothing.
ProbeResults(m) ==
    { [exit |-> 0,
       out |-> (IF m THEN StrDownloaded ELSE StrNotDownloaded) \o StrNewline],
      [exit |-> 1, out |-> StrEmpty] }

\* check_log_download_status: the value returned for the command's stdout.
LogsDownloaded(output) == Contains(StrDownloaded, output)

\* main's decision without its test of logs_downloaded.
Mut_NeedDownload(downloaded, force) == TRUE

\* main: the condition under which download_logs is called.
NeedDownload(downloaded, force) == (~downloaded) \/ force

\* download_logs with the exit status test left out.
Mut_DownloadLogsReturn(exit_status) == TRUE

\* download_logs: its return value for the command's exit status.
DownloadLogsReturn(exit_status) == exit_status = 0

\* create_symlinks with the exit status test left out.
Mut_CreateSymlinksReturn(exit_status) == TRUE

\* create_symlinks: its return value for the link command's exit status.
CreateSymlinksReturn(exit_status) == exit_status = 0

\* sys.exit(code) inside main's try block: SystemExit unwinds to `finally`.
SysExit(code) ==
    /\ pc' = "finally"
    /\ raised' = "SystemExit"
    /\ pending' = code

\* An exception other than SystemExit leaving main's try block; the
\* interpreter ends with `code` once `finally` has run.
Unwind(exc, code) ==
    /\ pc' = "finally"
    /\ raised' = exc
    /\ pending' = code

\* ---------------------------------------------------------------- main()
\* setup_ssh_client returning None on a failed connection instead of
\* leaving the program, so that main goes on with an unusable client.
Mut_SetupSsh ==
    /\ pc = "connect"
    /\ log' = Append(log, "connect")
    /\ \E ok \in BOOLEAN :
        /\ ssh_open' = ok
        /\ connect_exit' = IF ok THEN 0 ELSE 1
    /\ pc' = "probe"
    /\ UNCHANGED <<probe_exit, download_exit, symlink_exit, restart_exit>>
    /\ UNCHANGED <<closes, pending, raised, exit_code, es_ok, now,
                   real_count>>
    /\ UNCHANGED <<runVars, farmVars, feedVars, toolVars>>
    /\ UNCHANGED <<argVars, hostVars, probeVars, monVars, histVars>>

\* setup_ssh_client: connect, or print the error and sys.exit(1) (outside
\* main's try block, so no `finally` runs).
SetupSsh ==
    /\ pc = "connect"
    /\ log' = Append(log, "connect")
    /\ \E ok \in BOOLEAN :
        /\ ssh_open' = ok
        /\ connect_exit' = IF ok THEN 0 ELSE 1
        /\ IF ok
           THEN /\ pc' = "probe"
                /\ UNCHANGED <<exit_code, raised>>
           ELSE /\ pc' = "exited"
                /\ exit_code' = 1
                /\ raised' = "SystemExit"
    /\ UNCHANGED <<probe_exit, download_exit, symlink_exit, restart_exit>>
    /\ UNCHANGED <<closes, pending, es_ok, now, real_count>>
    /\ UNCHANGED <<runVars, farmVars, feedVars, toolVars>>
    /\ UNCHANGED <<argVars, hostVars, probeVars, monVars, histVars>>

\* check_log_download_status (which reads the command's stdout only), then
\* main's decision whether to download.
CheckLogDownloadStatus ==
    /\ pc = "probe"
    /\ log' = Append(log, "probe")
    /\ \E r \in ProbeResults(marker) :
        /\ probe_exit' = r.exit
        /\ probe_output' = r.out
        /\ logs_downloaded' = LogsDownloaded(r.out)
        /\ pc' = IF NeedDownload(LogsDownloaded(r.out), force_download)
                 THEN "download" ELSE "mkdir"
    /\ UNCHANGED <<connect_exit, download_exit, symlink_exit, restart_exit>>
    /\ UNCHANGED <<ssh_open, closes, pending, raised, exit_code, es_ok, now,
                   real_count>>
    /\ UNCHANGED <<runVars, farmVars, feedVars, toolVars>>
    /\ UNCHANGED <<argVars, hostVars, monVars, histVars>>

\* download_logs and main's reaction to its return value.
DownloadLogs ==
    /\ pc = "download"
    /\ log' = Append(log, "download")
    /\ \E st \in ExitStatuses :
        /\ download_exit' = st
        /\ IF DownloadLogsReturn(st)
           THEN /\ pc' = "mkdir"
                /\ UNCHANGED <<raised, pending>>
           ELSE SysExit(1)
    /\ UNCHANGED <<connect_exit, probe_exit, symlink_exit, restart_exit>>
    /\ UNCHANGED <<ssh_open, closes, exit_code, es_ok, now, real_count>>
    /\ UNCHANGED <<runVars, farmVars, feedVars, toolVars>>
    /\ UNCHANGED <<argVars, hostVars, probeVars, monVars, histVars>>

\* create_symlinks, first command: sudo mkdir -p (its result is not read).
MakeMonitorDir ==
    /\ pc = "mkdir"
    /\ log' = Append(log, "mkdir")
    /\ pc' = "symlink"
    /\ UNCHANGED <<ssh_open, closes, pending, raised, exit_code, es_ok, now,
                   real_count>>
    /\ UNCHANGED <<runVars, farmVars, feedVars, toolVars>>
    /\ UNCHANGED <<argVars, hostVars, probeVars, statusVars, monVars,
                   histVars>>

\* fnmatch of the pattern "*<suffix>" against a name.
EndsWith(suffix, name) ==
    /\ Len(name) >= Len(suffix)
    /\ SubSeq(name, Len(name) - Len(suffix) + 1, Len(name)) = suffix

\* basename "$file"
Basename(path) == path[Len(path)]

\* find's tests on one file: -path "*/split_logs/*" -type f
\* -not -name "*.original".
FindMatches(file) ==
    /\ \E i \in 1..(Len(file.path) - 1) : file.path[i] = StrSplitLogs
    /\ file.type = "f"
    /\ ~EndsWith(StrOriginalSuffix, Basename(file.path))

\* The lines the find command writes, in its order.
FindSplitLogs(fs) == SelectSeq(fs, FindMatches)

\* ln -s without -f: a name already in the farm makes ln fail and keeps
\* the old link.
Mut_Ln(fm, file) ==
    IF Basename(file.path) \in DOMAIN fm
    THEN [farm |-> fm, status |-> 1]
    ELSE [farm |-> [n \in DOMAIN fm \cup {Basename(file.path)} |->
                      IF n = Basename(file.path) THEN file.path ELSE fm[n]],
          status |-> 0]

\* sudo ln -sf "$file" "{log_dir}/logstash_input/$(basename "$file")": the
\* link of that name is created or replaced.
Ln(fm, file) ==
    [farm |-> [n \in DOMAIN fm \cup {Basename(file.path)} |->
                 IF n = Basename(file.path) THEN file.path ELSE fm[n]],
     status |-> 0]

\* The `while read -r file; do ...; done` loop over find's lines; the
\* pipeline's exit status is that of the last ln, 0 when there was none.
RECURSIVE LinkAll(_, _, _)
LinkAll(fs, fm, st) ==
    IF fs = << >>
    THEN [farm |-> fm, status |-> st]
    ELSE LinkAll(Tail(fs), Ln(fm, Head(fs)).farm, Ln(fm, Head(fs)).status)

\* create_symlinks, second command: find ... | while read; ln -sf; a
\* non-zero exit status makes create_symlinks return False and main exit 1.
\* The command can also fail for a reason of the host's (sudo, the
\* channel), leaving the farm as it was.
CreateLinks ==
    /\ pc = "symlink"
    /\ log' = Append(log, "symlink")
    /\ \E fault \in BOOLEAN :
        LET r == IF fault
                 THEN [farm |-> farm, status |-> 1]
                 ELSE LinkAll(FindSplitLogs(files), farm, 0)
        IN  /\ link_fault' = fault
            /\ farm' = r.farm
            /\ symlink_exit' = r.status
            /\ IF CreateSymlinksReturn(r.status)
               THEN /\ pc' = "count"
                    /\ UNCHANGED <<raised, pending>>
               ELSE SysExit(1)
    /\ UNCHANGED <<connect_exit, probe_exit, download_exit, restart_exit>>
    /\ UNCHANGED <<ssh_open, closes, exit_code, es_ok, now, real_count>>
    /\ UNCHANGED <<runVars, feedVars, toolVars>>
    /\ UNCHANGED <<argVars, hostVars, probeVars, monVars, histVars>>

\* create_symlinks, third command: ls -la | wc -l (only reported; an
\* unparseable count is caught).
CountLinks ==
    /\ pc = "count"
    /\ log' = Append(log, "count")
    /\ pc' = "chown"
    /\ UNCHANGED <<ssh_open, closes, pending, raised, exit_code, es_ok, now,
                   real_count>>
    /\ UNCHANGED <<runVars, farmVars, feedVars, toolVars>>
    /\ UNCHANGED <<argVars, hostVars, probeVars, statusVars, monVars,
                   histVars>>

\* create_symlinks, fourth command: sudo chown -R (its result is not read);
\* create_symlinks returns True.
ChownLinks ==
    /\ pc = "chown"
    /\ log' = Append(log, "chown")
    /\ pc' = "restart"
    /\ UNCHANGED <<ssh_open, closes, pending, raised, exit_code, es_ok, now,
                   real_count>>
    /\ UNCHANGED <<runVars, farmVars, feedVars, toolVars>>
    /\ UNCHANGED <<argVars, hostVars, probeVars, statusVars, monVars,
                   histVars>>

\* The restart with its exit status tested like the download's and the
\* link step's: a non-zero status ends the run with sys.exit(1).
Mut_RestartAgent ==
    /\ pc = "restart"
    /\ log' = Append(log, "restart")
    /\ \E st \in ExitStatuses :
        /\ restart_exit' = st
        /\ IF st = 0
           THEN pc' = "grace" /\ UNCHANGED <<pending, raised>>
           ELSE SysExit(1)
    /\ UNCHANGED <<connect_exit, probe_exit, download_exit, symlink_exit>>
    /\ UNCHANGED <<ssh_open, closes, exit_code, es_ok, now, real_count>>
    /\ UNCHANGED <<runVars, farmVars, feedVars, toolVars>>
    /\ UNCHANGED <<argVars, hostVars, probeVars, monVars, histVars>>

\* sudo systemctl restart logstash (its result is not read).
RestartAgent ==
    /\ pc = "restart"
    /\ log' = Append(log, "restart")
    /\ \E st \in ExitStatuses : restart_exit' = st
    /\ pc' = "grace"
    /\ UNCHANGED <<connect_exit, probe_exit, download_exit, symlink_exit>>
    /\ UNCHANGED <<ssh_open, closes, pending, raised, exit_code, es_ok, now,
                   real_count>>
    /\ UNCHANGED <<runVars, farmVars, feedVars, toolVars>>
    /\ UNCHANGED <<argVars, hostVars, probeVars, monVars, histVars>>

\* time.sleep(10)
GraceSleep ==
    /\ pc = "grace"
    /\ log' = Append(log, "grace")
    /\ now' = now + GraceDelay
    /\ pc' = "es_connect"
    /\ UNCHANGED <<ssh_open, closes, pending, raised, exit_code, es_ok,
                   real_count>>
    /\ UNCHANGED <<runVars, farmVars, feedVars, toolVars>>
    /\ UNCHANGED <<argVars, hostVars, probeVars, statusVars, monVars,
                   histVars>>

\* setup_elasticsearch_client: a failed ping and a raised error both end in
\* sys.exit(1), inside main's try block.
SetupElasticsearch ==
    /\ pc = "es_connect"
    /\ log' = Append(log, "es_connect")
    /\ \E ok \in BOOLEAN :
        /\ es_ok' = ok
        /\ IF ok
           THEN /\ pc' = "mon_init"
                /\ UNCHANGED <<raised, pending>>
           ELSE SysExit(1)
    /\ UNCHANGED <<ssh_open, closes, exit_code, now, real_count>>
    /\ UNCHANGED <<runVars, farmVars, feedVars, toolVars>>
    /\ UNCHANGED <<argVars, hostVars, probeVars, statusVars, monVars,
                   histVars>>

\* ------------------------------------------------- monitor_elasticsearch()
\* get_doc_count answering a failed query with a sentinel instead of 0.
Mut_get_doc_count(real, failed) == IF failed THEN -1 ELSE real

\* get_doc_count: the sum of the matching indices' document counts; 0 when
\* no index matches; 0 when the query raises (the `except Exception`).
get_doc_count(real, failed) == IF failed THEN 0 ELSE real

\* The `elif new_docs > 0` branch with 1 for 0: growth by a single
\* document does not restart the window.
Mut_WindowRestarts(cur, init, delta) == cur # init /\ delta > 1

\* The `elif new_docs > 0` branch is taken: the stability window restarts.
WindowRestarts(cur, init, delta) == cur # init /\ delta > 0

\* The exit condition without its growth guard `current_count >
\* initial_count`.
Mut_StableReachedNoGrowth(cur, init, stab, t, since, st) ==
    cur = stab /\ (t - since) >= st

\* The exit condition with `>` for `>=` in the dwell-time test.
Mut_StableReachedStrict(cur, init, stab, t, since, st) ==
    cur > init /\ cur = stab /\ (t - since) > st

\* The loop's exit condition.
StableReached(cur, init, stab, t, since, st) ==
    cur > init /\ cur = stab /\ (t - since) >= st

\* The value both `return` statements compute.
NewDocuments(cur, init) == cur - init

\* get_default_index_pattern with its first `return` removed, so that the
\* patterns by log type and date below it are produced.
Mut_get_default_index_pattern(lt, today) ==
    IF lt = "all"
    THEN <<"filebeat-7.*-", today>>
    ELSE IF lt \in {"linux", "windows", "mac", "ssh", "apache"}
         THEN <<"filebeat-7.*-", lt, "-", today>>
         ELSE <<"filebeat-7.*-", today>>

\* get_default_index_pattern: `return f"filebeat-*"` comes first; the
\* branches on args.log_type after it are never executed.
get_default_index_pattern(lt, today) == StrFilebeatAll

\* Python's truth value of args.index (None or a str).
Truthy(v) == v # PyNone /\ v # StrEmpty

\* index_pattern = args.index if args.index else get_default_index_pattern(args)
IndexPattern(idx, lt, today) ==
    IF Truthy(idx) THEN idx ELSE get_default_index_pattern(lt, today)

\* What the next count query can find in the index, and whether it can
\* fail: anything, or what the script of the index's counts says.
NextCounts ==
    IF scripted
    THEN IF fed < Len(feed) THEN {feed[fed + 1]} ELSE {}
    ELSE Counts

QueryFailures == IF scripted THEN {FALSE} ELSE BOOLEAN

\* The lines before the loop: the index pattern, the first sample and the
\* sample window.  They lie outside the function's try block.
MonitorInit ==
    /\ pc = "mon_init"
    /\ \E r \in NextCounts, failed \in QueryFailures :
        /\ failed => failures < MaxFailures
        /\ real_count' = r
        /\ initial_count' = get_doc_count(r, failed)
        /\ stable_count' = get_doc_count(r, failed)
        /\ last_count' = get_doc_count(r, failed)
        /\ max_count' = get_doc_count(r, failed)
        /\ failures' = IF failed THEN failures + 1 ELSE failures
        /\ init_failed' = failed
        /\ last_failed' = failed
        /\ seen' = {get_doc_count(r, failed)}
        /\ fed' = IF scripted THEN fed + 1 ELSE fed
    /\ \E today \in Dates :
        index_pattern' = IndexPattern(index, log_type, today)
    /\ stable_since' = now
    /\ mon_start' = now
    /\ inc_time' = now
    /\ log' = Append(log, "sample")
    /\ pc' = "mon_query"
    /\ UNCHANGED <<ssh_open, closes, pending, raised, exit_code, es_ok, now>>
    /\ UNCHANGED <<current_count, current_bound, current_time, new_docs,
                   outcome, nondecr, all_initial, static>>
    /\ UNCHANGED <<runVars, farmVars, feedVars, toolVars>>
    /\ UNCHANGED <<argVars, hostVars, probeVars, statusVars>>

\* One iteration of the loop, from `current_time = time.time()` to the
\* exit test: either `break` and return, or go on to the sleep.
MonitorTick ==
    /\ pc = "mon_query"
    /\ \E r \in NextCounts, failed \in QueryFailures :
        LET cur == get_doc_count(r, failed)
            delta == cur - last_count
            restart == WindowRestarts(cur, initial_count, delta)
            stab == IF restart THEN cur ELSE stable_count
            since == IF restart THEN now ELSE stable_since
        IN  /\ failed => failures < MaxFailures
            /\ real_count' = r
            /\ nondecr' = (nondecr /\ r >= real_count)
            /\ failures' = IF failed THEN failures + 1 ELSE failures
            /\ last_failed' = failed
            /\ seen' = seen \cup {cur}
            /\ fed' = IF scripted THEN fed + 1 ELSE fed
            /\ current_time' = now
            /\ current_count' = cur
            /\ current_bound' = TRUE
            /\ last_count' = cur
            /\ max_count' = IF cur > max_count THEN cur ELSE max_count
            /\ stable_count' = stab
            /\ stable_since' = since
            /\ all_initial' = (all_initial /\ cur = initial_count)
            /\ static' = (static /\ r = real_count)
            /\ inc_time' = IF cur > last_count THEN now ELSE inc_time
            /\ IF StableReached(cur, initial_count, stab, now, since,
                                stable_time)
               THEN /\ pc' = "verdict"
                    /\ outcome' = "Success"
                    /\ new_docs' = NewDocuments(cur, initial_count)
               ELSE /\ pc' = "mon_sleep"
                    /\ UNCHANGED <<outcome, new_docs>>
    /\ UNCHANGED <<log, ssh_open, closes, pending, raised, exit_code, es_ok,
                   now, initial_count, mon_start, init_failed>>
    /\ UNCHANGED <<runVars, farmVars, feedVars, toolVars>>
    /\ UNCHANGED index_pattern
    /\ UNCHANGED <<argVars, hostVars, probeVars, statusVars>>

\* time.sleep(args.check_interval); the next tick starts after the interval
\* plus whatever the query and the wake-up took.
MonitorSleep ==
    /\ pc = "mon_sleep"
    /\ \E d \in 0..MaxLatency :
        /\ IF scripted
           THEN fed < Len(feed)
           ELSE (now + check_interval + d) - mon_start <= MaxTime
        /\ now' = now + check_interval + d
    /\ pc' = "mon_query"
    /\ UNCHANGED <<log, ssh_open, closes, pending, raised, exit_code, es_ok,
                   real_count>>
    /\ UNCHANGED <<runVars, farmVars, feedVars, toolVars>>
    /\ UNCHANGED <<argVars, hostVars, probeVars, statusVars, monVars, histVars>>

\* KeyboardInterrupt inside the monitor's try block: the handler returns
\* current_count - initial_count, and reading current_count before the
\* first iteration assigned it raises UnboundLocalError instead.
MonitorInterrupt ==
    /\ pc \in {"mon_query", "mon_sleep"}
    /\ IF current_bound
       THEN /\ outcome' = "Interrupted"
            /\ new_docs' = NewDocuments(current_count, initial_count)
            /\ pc' = "verdict"
            /\ UNCHANGED <<raised, pending>>
       ELSE /\ outcome' = "Crashed"
            /\ Unwind("UnboundLocalError", 1)
            /\ UNCHANGED new_docs
    /\ UNCHANGED <<log, ssh_open, closes, exit_code, es_ok, now, real_count>>
    /\ UNCHANGED <<initial_count, stable_count, stable_since, last_count,
                   max_count, current_count, current_bound, current_time>>
    /\ UNCHANGED <<runVars, farmVars, feedVars, toolVars>>
    /\ UNCHANGED index_pattern
    /\ UNCHANGED <<argVars, hostVars, probeVars, statusVars, histVars>>

\* ------------------------------------------------------ main(), continued
\* main's verdict on the monitor's return value.
ExitCodeFor(n) == IF n > 0 THEN 0 ELSE 1

\* `verbose` is args.verbose, which main reads here and nowhere else.
Verdict ==
    /\ pc = "verdict"
    /\ \E verbose \in BOOLEAN :
        IF ExitCodeFor(new_docs) = 0 /\ verbose
        THEN /\ pc' = "check_script"
             /\ UNCHANGED <<raised, pending>>
        ELSE SysExit(ExitCodeFor(new_docs))
    /\ UNCHANGED <<log, ssh_open, closes, exit_code, es_ok, now, real_count>>
    /\ UNCHANGED <<runVars, farmVars, feedVars, toolVars>>
    /\ UNCHANGED <<argVars, hostVars, probeVars, statusVars, monVars, histVars>>

\* run_check_elastic_script (verbose runs only), then sys.exit(0); an error
\* it raises is caught and printed.
RunCheckScript ==
    /\ pc = "check_script"
    /\ log' = Append(log, "check_script")
    /\ SysExit(0)
    /\ UNCHANGED <<ssh_open, closes, exit_code, es_ok, now, real_count>>
    /\ UNCHANGED <<runVars, farmVars, feedVars, toolVars>>
    /\ UNCHANGED <<argVars, hostVars, probeVars, statusVars, monVars, histVars>>

\* The positions of main's try block outside the monitor's own try block.
InterruptiblePcs ==
    {"probe", "download", "mkdir", "symlink", "count", "chown", "restart",
     "grace", "es_connect", "mon_init", "check_script"}

\* The positions at which a remote command is running.
CommandPcs ==
    {"probe", "download", "mkdir", "symlink", "count", "chown", "restart",
     "check_script"}

\* KeyboardInterrupt in main's try block, before the step at pc started or
\* (issued) while its remote command was running: nothing catches it, the
\* `finally` clause runs and the interpreter ends with status 130.
MainInterrupt ==
    /\ pc \in InterruptiblePcs
    /\ \E issued \in BOOLEAN :
        log' = IF issued /\ pc \in CommandPcs
               THEN Append(log, pc) ELSE log
    /\ Unwind("KeyboardInterrupt", 130)
    /\ UNCHANGED <<ssh_open, closes, exit_code, es_ok, now, real_count>>
    /\ UNCHANGED <<runVars, farmVars, feedVars, toolVars>>
    /\ UNCHANGED <<argVars, hostVars, probeVars, statusVars, monVars, histVars>>

\* main's finally clause without the close() call.
Mut_Finally ==
    /\ pc = "finally"
    /\ exit_code' = pending
    /\ pc' = "exited"
    /\ UNCHANGED <<ssh_open, closes>>
    /\ UNCHANGED <<log, pending, raised, es_ok, now, real_count>>
    /\ UNCHANGED <<runVars, farmVars, feedVars, toolVars>>
    /\ UNCHANGED <<argVars, hostVars, probeVars, statusVars, monVars,
                   histVars>>

\* main's finally clause: close the SSH connection; then the process ends
\* with the code of the exception that was unwinding.
Finally ==
    /\ pc = "finally"
    /\ IF ssh_open
       THEN /\ ssh_open' = FALSE
            /\ closes' = closes + 1
       ELSE UNCHANGED <<ssh_open, closes>>
    /\ exit_code' = pending
    /\ pc' = "exited"
    /\ UNCHANGED <<log, pending, raised, es_ok, now, real_count>>
    /\ UNCHANGED <<runVars, farmVars, feedVars, toolVars>>
    /\ UNCHANGED <<argVars, hostVars, probeVars, statusVars, monVars, histVars>>

Next ==
    \/ SetupSsh
    \/ CheckLogDownloadStatus
    \/ DownloadLogs
    \/ MakeMonitorDir
    \/ CreateLinks
    \/ CountLinks
    \/ ChownLinks
    \/ RestartAgent
    \/ GraceSleep
    \/ SetupElasticsearch
    \/ MonitorInit
    \/ MonitorTick
    \/ MonitorSleep
    \/ MonitorInterrupt
    \/ Verdict
    \/ RunCheckScript
    \/ MainInterrupt
    \/ Finally

Spec == Init /\ [][Next]_vars

\* ------------------------------------------- the setup steps, run twice
\* Any host and any farm left by earlier runs; the monitor's arguments play
\* no part in the setup steps.
InitFarm ==
    /\ InitProcess
    /\ ToolsIdle
    /\ pc = "connect"
    /\ log_type = "linux"
    /\ index = PyNone
    /\ scripted = FALSE
    /\ feed = << >>
    /\ force_download \in BOOLEAN
    /\ stable_time = 0
    /\ check_interval = 1
    /\ marker \in BOOLEAN
    /\ files \in Hosts
    /\ farm \in InitialFarms
    /\ run = 1
    /\ first = << >>

\* The program is invoked again with the same arguments once the first
\* invocation is through its setup steps (what follows them in main, the
\* delay and the monitoring, touches neither the host's files nor the
\* farm).  The host keeps its state; the program starts afresh.
SecondRun ==
    /\ run = 1
    /\ pc = "grace"
    /\ run' = 2
    /\ first' = << [log |-> log, farm |-> farm, probe_exit |-> probe_exit,
                    symlink_exit |-> symlink_exit] >>
    /\ pc' = "connect"
    /\ log' = << >>
    /\ ssh_open' = FALSE
    /\ probe_output' = StrEmpty
    /\ logs_downloaded' = FALSE
    /\ connect_exit' = -1
    /\ probe_exit' = -1
    /\ download_exit' = -1
    /\ symlink_exit' = -1
    /\ restart_exit' = -1
    /\ link_fault' = FALSE
    /\ UNCHANGED <<farm, closes, pending, raised, exit_code, es_ok, now,
                   real_count>>
    /\ UNCHANGED <<argVars, hostVars, feedVars, monVars, histVars, toolVars>>

NextFarm ==
    \/ SetupSsh
    \/ CheckLogDownloadStatus
    \/ DownloadLogs
    \/ MakeMonitorDir
    \/ CreateLinks
    \/ CountLinks
    \/ ChownLinks
    \/ RestartAgent
    \/ SecondRun

SpecFarm == InitFarm /\ [][NextFarm]_vars

\* --------------------------------------- runs over scripted index counts
\* The counts of the scripted runs, and the number of queries scripted:
\* the one for initial_count and five in the loop.
ScriptCounts == {0, 100, 250}
ScriptLength == 6

\* The program run with --check-interval 10 --stable-time 20 on a host
\* whose logs are downloaded, against an index whose successive counts are
\* given.
InitScript ==
    /\ InitProcess
    /\ ToolsIdle
    /\ pc = "connect"
    /\ log_type = "linux"
    /\ index = PyNone
    /\ force_download = FALSE
    /\ stable_time = 20
    /\ check_interval = 10
    /\ marker = TRUE
    /\ files = ReferenceHost
    /\ farm = EmptyFarm
    /\ run = 1
    /\ first = << >>
    /\ scripted = TRUE
    /\ feed \in [1..ScriptLength -> ScriptCounts]

SpecScript == InitScript /\ [][Next]_vars

\* -------------------------------------- runs over --log-type and --index
\* The program run with any --log-type and --index on a host whose logs
\* are downloaded.
InitPattern ==
    /\ InitProcess
    /\ ToolsIdle
    /\ pc = "connect"
    /\ log_type \in LogTypes
    /\ index \in IndexArgs
    /\ force_download = FALSE
    /\ stable_time = 1
    /\ check_interval = 1
    /\ marker = TRUE
    /\ files = ReferenceHost
    /\ farm = EmptyFarm
    /\ run = 1
    /\ first = << >>
    /\ scripted = FALSE
    /\ feed = << >>

SpecPattern == InitPattern /\ [][Next]_vars

\* ======================================================= check_s3_data.py
\* Object keys (their order is the order of S3's listing), LastModified
\* values, and the --wait and --count values explored.
S3Keys == 1..MaxKeys
S3Stamps == 1..MaxStamp
S3Waits == {0, 4, 25}
S3CountArgs == {0, 1, 2, 5}

\* The buckets: key |-> LastModified of the objects under the prefix.
Buckets == UNION { [ks -> S3Stamps] : ks \in SUBSET S3Keys }

\* What list_objects_v2 returns for a bucket, all pages put end to end:
\* the objects in ascending key order.
Listing(b) ==
    LET n == Cardinality(DOMAIN b)
        f == CHOOSE g \in [1..n -> DOMAIN b] :
                 \A i, j \in 1..n : i < j => g[i] < g[j]
    IN  [i \in 1..n |-> [Key |-> f[i], LastModified |-> b[f[i]]]]

\* The `for page in page_iterator` loop of list_s3_objects: pages are
\* appended until the listing ends or, max_items being set (not None and
\* not 0), until max_items objects are held; the list is then cut to
\* max_items and the loop left.  max_items = None is written 0.
RECURSIVE ListPages(_, _, _)
ListPages(rest, objects, max_items) ==
    IF rest = << >>
    THEN objects
    ELSE LET k == IF Len(rest) < PageSize THEN Len(rest) ELSE PageSize
             held == objects \o SubSeq(rest, 1, k)
         IN  IF max_items # 0 /\ Len(held) >= max_items
             THEN SubSeq(held, 1, max_items)
             ELSE ListPages(SubSeq(rest, k + 1, Len(rest)), held, max_items)

\* sorted(objects, key=LastModified, reverse=True): a stable sort, so
\* objects with equal LastModified keep their order.
RECURSIVE SortedByLastModified(_)
SortedByLastModified(objects) ==
    IF objects = << >>
    THEN << >>
    ELSE LET top == CHOOSE i \in DOMAIN objects :
                        /\ \A j \in DOMAIN objects :
                               objects[j].LastModified
                                   <= objects[i].LastModified
                        /\ \A j \in 1..(i - 1) :
                               objects[j].LastModified
                                   < objects[i].LastModified
         IN  <<objects[top]>> \o
             SortedByLastModified(SubSeq(objects, 1, top - 1) \o
                                  SubSeq(objects, top + 1, Len(objects)))

\* list_s3_objects; a ClientError gives the empty list.
list_s3_objects(b, max_items, failed) ==
    IF failed
    THEN << >>
    ELSE SortedByLastModified(ListPages(Listing(b), << >>, max_items))

\* set(obj['Key'] for obj in objects)
KeySet(objects) == { objects[i].Key : i \in DOMAIN objects }

\* wait_time with the interval alone, without min(10, remaining).
Mut_S3WaitTime(remaining) == S3PollInterval

\* wait_time = min(10, remaining)
S3WaitTime(remaining) ==
    IF S3PollInterval < remaining THEN S3PollInterval ELSE remaining

\* check_s3_data.py run with any --wait on any bucket.
InitS3 ==
    /\ InitProcess
    /\ pc = "connect"
    /\ log_type = "linux"
    /\ index = PyNone
    /\ force_download = FALSE
    /\ stable_time = 1
    /\ check_interval = 1
    /\ marker = TRUE
    /\ files = ReferenceHost
    /\ farm = EmptyFarm
    /\ run = 1
    /\ first = << >>
    /\ scripted = FALSE
    /\ feed = << >>
    /\ InitS3Idle
    /\ s3_wait \in S3Waits
    /\ s3_bucket \in Buckets
    /\ InitEcIdle
    /\ ec_wait = 0
    /\ ec_indices = FALSE
    /\ ec_docs = 0

\* main up to the loop: with --wait, start_time and the listing that
\* gives initial_keys; without, straight to check_s3_data.
S3Start ==
    /\ s3_pc = "start"
    /\ IF s3_wait > 0
       THEN \E failed \in BOOLEAN, d \in 0..MaxLatency :
                /\ s3_start' = s3_now
                /\ s3_initial_keys' =
                       KeySet(list_s3_objects(s3_bucket, 0, failed))
                /\ s3_keys0' = DOMAIN s3_bucket
                /\ s3_now' = s3_now + d
                /\ s3_pc' = "test"
       ELSE /\ s3_pc' = "check"
            /\ UNCHANGED <<s3_start, s3_initial_keys, s3_keys0, s3_now>>
    /\ UNCHANGED <<s3_wait, s3_count, s3_bucket, s3_wait_time, s3_listed,
                   s3_inspected, s3_rc, s3_polls, s3_list_failed>>

\* while time.time() - start_time < args.wait; after the loop, return 1.
S3LoopTest ==
    /\ s3_pc = "test"
    /\ IF s3_now - s3_start < s3_wait
       THEN s3_pc' = "list" /\ UNCHANGED s3_rc
       ELSE s3_pc' = "done" /\ s3_rc' = 1
    /\ UNCHANGED <<s3_wait, s3_count, s3_now, s3_start, s3_bucket,
                   s3_initial_keys, s3_wait_time, s3_listed, s3_inspected,
                   s3_polls, s3_keys0, s3_list_failed>>

\* The loop body: list, compare with initial_keys, and either go to
\* check_s3_data, or break, or compute the sleep.
S3Poll ==
    /\ s3_pc = "list"
    /\ \E failed \in BOOLEAN, d \in 0..MaxLatency :
        LET current_keys == KeySet(list_s3_objects(s3_bucket, 0, failed))
            new_keys == current_keys \ s3_initial_keys
            remaining == s3_wait - ((s3_now + d) - s3_start)
        IN  /\ s3_polls' = Append(s3_polls, [at |-> s3_now - s3_start,
                                             keys |-> current_keys])
            /\ s3_now' = s3_now + d
            /\ IF new_keys # {}
               THEN s3_pc' = "check" /\ UNCHANGED <<s3_rc, s3_wait_time>>
               ELSE IF remaining <= 0
                    THEN /\ s3_pc' = "done"
                         /\ s3_rc' = 1
                         /\ UNCHANGED s3_wait_time
                    ELSE /\ s3_pc' = "sleep"
                         /\ s3_wait_time' = S3WaitTime(remaining)
                         /\ UNCHANGED s3_rc
    /\ UNCHANGED <<s3_wait, s3_count, s3_start, s3_bucket, s3_initial_keys,
                   s3_listed, s3_inspected, s3_keys0, s3_list_failed>>

\* time.sleep(wait_time)
S3Sleep ==
    /\ s3_pc = "sleep"
    /\ s3_now' = s3_now + s3_wait_time
    /\ s3_pc' = "test"
    /\ UNCHANGED <<s3_wait, s3_count, s3_start, s3_bucket, s3_initial_keys,
                   s3_wait_time, s3_listed, s3_inspected, s3_rc, s3_polls,
                   s3_keys0, s3_list_failed>>

\* check_s3_data(bucket, prefix, args.count) and main's return: the
\* listing limited to max_count, check_object_content on objects[:max_count]
\* (its result does not enter has_data), return 0 iff any object was
\* listed.
S3Check ==
    /\ s3_pc = "check"
    /\ \E cnt \in S3CountArgs, failed \in BOOLEAN :
        LET objects == list_s3_objects(s3_bucket, cnt, failed)
            n == IF Len(objects) < cnt THEN Len(objects) ELSE cnt
        IN  /\ s3_count' = cnt
            /\ s3_list_failed' = failed
            /\ s3_listed' = [i \in DOMAIN objects |-> objects[i].Key]
            /\ s3_inspected' = [i \in 1..n |-> objects[i].Key]
            /\ s3_rc' = IF objects # << >> THEN 0 ELSE 1
    /\ s3_pc' = "done"
    /\ UNCHANGED <<s3_wait, s3_now, s3_start, s3_bucket, s3_initial_keys,
                   s3_wait_time, s3_polls, s3_keys0>>

\* Some writer puts a new object under the prefix while the program runs.
S3Put ==
    /\ s3_pc # "done"
    /\ \E k \in S3Keys \ DOMAIN s3_bucket, t \in S3Stamps :
        s3_bucket' = [x \in DOMAIN s3_bucket \cup {k} |->
                        IF x = k THEN t ELSE s3_bucket[x]]
    /\ UNCHANGED <<s3_pc, s3_wait, s3_count, s3_now, s3_start,
                   s3_initial_keys, s3_wait_time, s3_listed, s3_inspected,
                   s3_rc, s3_polls, s3_keys0, s3_list_failed>>

\* The variables of the monitor program, which is not run here.
mainVars ==
    <<pc, log, ssh_open, closes, es_ok, pending, raised, exit_code, now,
      real_count, argVars, hostVars, probeVars, statusVars, monVars,
      histVars, runVars, farmVars, feedVars>>

NextS3 ==
    \/ S3Start /\ UNCHANGED <<mainVars, ecVars>>
    \/ S3LoopTest /\ UNCHANGED <<mainVars, ecVars>>
    \/ S3Poll /\ UNCHANGED <<mainVars, ecVars>>
    \/ S3Sleep /\ UNCHANGED <<mainVars, ecVars>>
    \/ S3Check /\ UNCHANGED <<mainVars, ecVars>>
    \/ S3Put /\ UNCHANGED <<mainVars, ecVars>>

SpecS3 == InitS3 /\ [][NextS3]_vars

\* ================================================== check_elastic_data.py
\* --wait values explored.
EcWaits == {0, 4, 25}

\* check_data_exists with `>=` for `>` in the test of total_docs.
Mut_check_data_exists(indices, docs, stats_raises, search_raises) ==
    IF stats_raises
    THEN FALSE
    ELSE IF ~indices
         THEN FALSE
         ELSE IF docs >= 0 THEN ~search_raises ELSE FALSE

\* check_data_exists: False when no index matches; with a positive total
\* count a sample document is fetched and True returned; False when the
\* count is 0; any exception, of the stats call or of the search, is
\* caught and gives False.
check_data_exists(indices, docs, stats_raises, search_raises) ==
    IF stats_raises
    THEN FALSE
    ELSE IF ~indices
         THEN FALSE
         ELSE IF docs > 0 THEN ~search_raises ELSE FALSE

\* wait_time = min(10, remaining)
EcWaitTime(remaining) ==
    IF EcPollInterval < remaining THEN EcPollInterval ELSE remaining

\* check_elastic_data.py run with any --wait against any index state.
InitEc ==
    /\ InitProcess
    /\ pc = "connect"
    /\ log_type = "linux"
    /\ index = PyNone
    /\ force_download = FALSE
    /\ stable_time = 1
    /\ check_interval = 1
    /\ marker = TRUE
    /\ files = ReferenceHost
    /\ farm = EmptyFarm
    /\ run = 1
    /\ first = << >>
    /\ scripted = FALSE
    /\ feed = << >>
    /\ InitS3Idle
    /\ s3_wait = 0
    /\ s3_bucket = << >>
    /\ InitEcIdle
    /\ ec_wait \in EcWaits
    /\ ec_indices \in BOOLEAN
    /\ ec_docs \in IF ec_indices THEN Counts ELSE {0}

\* Elasticsearch(...) and es.ping(): a failure is sys.exit(1); then
\* start_time is taken (with --wait).
EcConnect ==
    /\ ec_pc = "connect"
    /\ \E ok \in BOOLEAN :
        IF ok
        THEN /\ ec_pc' = IF ec_wait > 0 THEN "test" ELSE "once"
             /\ ec_start' = ec_now
             /\ UNCHANGED ec_rc
        ELSE /\ ec_pc' = "done"
             /\ ec_rc' = 1
             /\ UNCHANGED ec_start
    /\ UNCHANGED <<ec_wait, ec_now, ec_indices, ec_docs, ec_wait_time,
                   ec_polls>>

\* while time.time() - start_time < args.wait; after the loop,
\* sys.exit(1).
EcLoopTest ==
    /\ ec_pc = "test"
    /\ IF ec_now - ec_start < ec_wait
       THEN ec_pc' = "poll" /\ UNCHANGED ec_rc
       ELSE ec_pc' = "done" /\ ec_rc' = 1
    /\ UNCHANGED <<ec_wait, ec_now, ec_start, ec_indices, ec_docs,
                   ec_wait_time, ec_polls>>

\* The loop body: check_data_exists, then sys.exit(0), or break, or the
\* computation of the sleep.
EcPoll ==
    /\ ec_pc = "poll"
    /\ \E stats_raises \in BOOLEAN, search_raises \in BOOLEAN,
          d \in 0..MaxLatency :
        LET found == check_data_exists(ec_indices, ec_docs, stats_raises,
                                       search_raises)
            remaining == ec_wait - ((ec_now + d) - ec_start)
        IN  /\ ec_polls' =
                   Append(ec_polls,
                          [at |-> ec_now - ec_start,
                           indices |-> ec_indices,
                           docs |-> ec_docs,
                           raised |-> stats_raises \/
                               (ec_indices /\ ec_docs > 0 /\ search_raises),
                           found |-> found])
            /\ ec_now' = ec_now + d
            /\ IF found
               THEN /\ ec_pc' = "done"
                    /\ ec_rc' = 0
                    /\ UNCHANGED ec_wait_time
               ELSE IF remaining <= 0
                    THEN /\ ec_pc' = "done"
                         /\ ec_rc' = 1
                         /\ UNCHANGED ec_wait_time
                    ELSE /\ ec_pc' = "sleep"
                         /\ ec_wait_time' = EcWaitTime(remaining)
                         /\ UNCHANGED ec_rc
    /\ UNCHANGED <<ec_wait, ec_start, ec_indices, ec_docs>>

\* time.sleep(wait_time)
EcSleep ==
    /\ ec_pc = "sleep"
    /\ ec_now' = ec_now + ec_wait_time
    /\ ec_pc' = "test"
    /\ UNCHANGED <<ec_wait, ec_start, ec_indices, ec_docs, ec_wait_time,
                   ec_rc, ec_polls>>

\* Without --wait: one check_data_exists, sys.exit(0) or sys.exit(1).
EcCheckOnce ==
    /\ ec_pc = "once"
    /\ \E stats_raises \in BOOLEAN, search_raises \in BOOLEAN,
          d \in 0..MaxLatency :
        LET found == check_data_exists(ec_indices, ec_docs, stats_raises,
                                       search_raises)
        IN  /\ ec_polls' =
                   Append(ec_polls,
                          [at |-> ec_now - ec_start,
                           indices |-> ec_indices,
                           docs |-> ec_docs,
                           raised |-> stats_raises \/
                               (ec_indices /\ ec_docs > 0 /\ search_raises),
                           found |-> found])
            /\ ec_now' = ec_now + d
            /\ ec_rc' = IF found THEN 0 ELSE 1
    /\ ec_pc' = "done"
    /\ UNCHANGED <<ec_wait, ec_start, ec_indices, ec_docs, ec_wait_time>>

\* The pipeline creates a matching index or indexes more documents while
\* the program runs.
EcIngest ==
    /\ ec_pc # "done"
    /\ \/ ~ec_indices /\ ec_indices' = TRUE /\ UNCHANGED ec_docs
       \/ /\ ec_indices
          /\ \E n \in Counts : n > ec_docs /\ ec_docs' = n
          /\ UNCHANGED ec_indices
    /\ UNCHANGED <<ec_pc, ec_wait, ec_now, ec_start, ec_wait_time, ec_rc,
                   ec_polls>>

NextEc ==
    \/ EcConnect /\ UNCHANGED <<mainVars, s3Vars>>
    \/ EcLoopTest /\ UNCHANGED <<mainVars, s3Vars>>
    \/ EcPoll /\ UNCHANGED <<mainVars, s3Vars>>
    \/ EcSleep /\ UNCHANGED <<mainVars, s3Vars>>
    \/ EcCheckOnce /\ UNCHANGED <<mainVars, s3Vars>>
    \/ EcIngest /\ UNCHANGED <<mainVars, s3Vars>>

SpecEc == InitEc /\ [][NextEc]_vars

\* ============================================================ the claims
\* The steps named in a history.
Steps(l) == { l[i] : i \in DOMAIN l }

\* The run is over.
Exited == pc = "exited"

\* The run is over or unwinding to its end; nothing but `finally` follows.
Ending == pc \in {"finally", "exited"}

\* The steps that follow the download step.
AfterDownloadSteps ==
    {"mkdir", "symlink", "count", "chown", "restart", "grace", "es_connect",
     "sample", "check_script"}

\* The probe has answered and main has not gone past the download decision.
AtDownloadDecision ==
    /\ probe_exit = 0
    /\ pc \in {"download", "mkdir"}
    /\ ~("download" \in Steps(log))

\* C1: the download step is skipped if and only if the probe found the
\* marker present and force_download is false; with the marker absent (the
\* probe prints 'Not Downloaded') and no force, download_logs is invoked.
C1_DownloadSkippedIffMarkerAndNoForce ==
    AtDownloadDecision =>
        ((pc = "mkdir") <=>
            (marker /\ probe_output = StrDownloaded \o StrNewline
                    /\ ~force_download))

\* ------------------------------------------------------------ the monitor
\* No count query failed and the real count never went down: the samples
\* are monotonically non-decreasing.
CleanSamples == failures = 0 /\ nondecr

\* Seconds between the latest tick and the tick that saw the last increase
\* of the sampled count (the start of monitoring if none did).
SinceLastIncrease == current_time - inc_time

\* C2 as claimed: on non-decreasing samples the monitor ends with Success at
\* the first tick at which the time since the last observed increase is
\* >= stable_time, with new_documents = final count - initial_count, less
\* than stable_time + check_interval after the tick of the last increase.
C2_SuccessOnEveryFlatSequence ==
    (CleanSamples /\ current_bound) =>
        /\ (SinceLastIncrease >= stable_time /\ outcome # "Interrupted")
                => outcome = "Success"
        /\ outcome = "Success" =>
            /\ new_docs = real_count - initial_count
            /\ SinceLastIncrease >= stable_time
            /\ SinceLastIncrease < stable_time + check_interval

\* The timing half of C2 as claimed, alone: Success comes less than
\* stable_time + check_interval after the tick of the last increase.
C2_SuccessWithinOneInterval ==
    (CleanSamples /\ outcome = "Success") =>
        SinceLastIncrease < stable_time + check_interval

\* C2 as amended: on non-decreasing samples a session that is not
\* interrupted ends with Success at
\* the first tick at which the sampled count is above initial_count and the
\* time since the last observed increase is >= stable_time; new_documents is
\* that final count minus initial_count; the tick comes less than
\* stable_time plus one tick period (check_interval plus what query and
\* wake-up take) after the tick of the last increase.
C2_SuccessOnFlatSequenceAboveInitial ==
    (CleanSamples /\ current_bound) =>
        /\ (current_count > initial_count /\ outcome # "Interrupted"
                /\ SinceLastIncrease >= stable_time) => outcome = "Success"
        /\ outcome = "Success" =>
            /\ current_count > initial_count
            /\ current_count = real_count
            /\ new_docs = real_count - initial_count
            /\ SinceLastIncrease >= stable_time
            /\ SinceLastIncrease < stable_time + check_interval + MaxLatency

\* A session on non-decreasing samples that went through a tick short of
\* the dwell time and then ended with Success.
C2_Witness ==
    /\ CleanSamples
    /\ outcome = "Success"
    /\ stable_time > check_interval
    /\ new_docs > 0
    /\ inc_time > mon_start

\* C3: when every sample equals initial_count the monitor never reports
\* Success, whatever stable_time and check_interval are; it stays in its
\* loop until interrupted and the interrupted result is 0 new documents.
C3_NoSuccessOnStaticCount ==
    (all_initial /\ current_bound) =>
        /\ outcome # "Success"
        /\ outcome = "none" => pc \in {"mon_sleep", "mon_query"}
        /\ outcome = "Interrupted" => new_docs = 0

\* A static pre-existing index, polled for longer than stable_time and then
\* interrupted.
C3_Witness ==
    /\ all_initial
    /\ current_bound
    /\ initial_count > 0
    /\ stable_time > 0
    /\ current_time - mon_start >= stable_time
    /\ outcome = "Interrupted"

\* C4: the process exits 0 if and only if the monitor ended with Success
\* and new_documents > 0; an interrupted session ends with exit code 1
\* whatever partial count it gathered.
C4_ExitZeroIffSuccess ==
    /\ exit_code = 0 => (outcome = "Success" /\ new_docs > 0)
    /\ (Exited /\ outcome = "Interrupted") => exit_code = 1
    /\ (Exited /\ outcome = "Success" /\ new_docs > 0
            /\ raised = "SystemExit") => exit_code = 0

\* C5: an interrupt anywhere in the monitoring loop, the first iteration
\* included, gives an Interrupted result with new_documents = last observed
\* count - initial_count and never an unhandled error.
C5_InterruptGivesPartialResult ==
    /\ outcome # "Crashed"
    /\ raised # "UnboundLocalError"
    /\ outcome = "Interrupted" => new_docs = last_count - initial_count

\* C6: when the download command returns a non-zero exit status the run
\* ends with exit code 1 and no later step is ever started: no link-farm
\* command, no restart, no Elasticsearch connection, no monitoring sample.
C6_DownloadFailureStopsRun ==
    (download_exit \notin {-1, 0}) =>
        /\ Ending
        /\ pending = 1
        /\ Exited => exit_code = 1
        /\ Steps(log) \cap AfterDownloadSteps = {}
        /\ ~es_ok
        /\ ~current_bound

\* A run whose download command failed and that has ended.
C6_Witness ==
    /\ download_exit = 1
    /\ Exited
    /\ closes = 1

\* C7: a non-zero exit status of the probe or of the download command makes
\* the setup sequence fail; a probe that exits non-zero is never taken as
\* an answer that lets the sequence continue.
C7_ProbeOrDownloadFailureFailsSetup ==
    /\ (probe_exit \notin {-1, 0}) =>
        (Ending /\ pending = 1 /\ Steps(log) \cap AfterDownloadSteps = {}
                /\ ~("download" \in Steps(log)))
    /\ (download_exit \notin {-1, 0}) =>
        (Ending /\ pending = 1 /\ Steps(log) \cap AfterDownloadSteps = {})

\* C8: in every run in which setup_ssh_client succeeded the connection is
\* closed exactly once before the process ends, on every exit path.
C8_SshClosedExactlyOnce ==
    /\ closes <= 1
    /\ connect_exit # 0 => closes = 0
    /\ (Exited /\ connect_exit = 0) => (closes = 1 /\ ~ssh_open)
    /\ (connect_exit = 0 /\ ~Ending) => (ssh_open /\ closes = 0)

\* A run that ended on a failed Elasticsearch connection, SSH closed.
C8_Witness ==
    /\ Exited
    /\ connect_exit = 0
    /\ "es_connect" \in Steps(log)
    /\ ~es_ok
    /\ raised = "SystemExit"
    /\ closes = 1

\* A single count query failed, after initial_count was taken, and the real
\* count never went down.
OneFailureMidSession == nondecr /\ ~init_failed /\ failures <= 1

\* C9: a single failed count query mid-session is read as a zero sample;
\* the loop does not end on it and polls again; once the real count is
\* flat above initial_count for stable_time the session ends with Success
\* and new_documents = real final count - initial_count.
C9_FailedQueryAbsorbed ==
    (OneFailureMidSession /\ current_bound) =>
        /\ last_failed =>
            /\ current_count = 0
            /\ outcome \in {"none", "Interrupted"}
            /\ outcome = "none" => pc \in {"mon_sleep", "mon_query"}
        /\ (~last_failed /\ current_count > initial_count
                /\ outcome # "Interrupted"
                /\ SinceLastIncrease >= stable_time) => outcome = "Success"
        /\ outcome = "Success" =>
            /\ ~last_failed
            /\ real_count > initial_count
            /\ new_docs = real_count - initial_count

\* A session that had one failed query inside the loop and
\* still ended with Success.
C9_Witness ==
    /\ nondecr
    /\ ~init_failed
    /\ failures = 1
    /\ max_count > initial_count
    /\ stable_time > 0
    /\ outcome = "Success"
    /\ new_docs = max_count - initial_count

\* The pipeline's steps in their order.
StepOrder ==
    <<"connect", "probe", "download", "mkdir", "symlink", "count", "chown",
      "restart", "grace", "es_connect", "sample", "check_script">>

Position ==
    [step \in {StepOrder[i] : i \in DOMAIN StepOrder} |->
        CHOOSE i \in DOMAIN StepOrder : StepOrder[i] = step]

AfterRestartPcs ==
    {"grace", "es_connect", "mon_init", "mon_query", "mon_sleep", "verdict",
     "check_script"}

\* C11: a restart that reports a non-zero exit status does not abort the
\* run: nothing leaves the program with sys.exit before the grace delay and
\* the Elasticsearch connection have followed, the run goes on to the
\* monitor, and the exit code that the verdict's sys.exit gives is a
\* function of the monitor's result alone (0 iff it returned a positive
\* number), whatever the restart reported.
C11_RestartFailureDoesNotAbort ==
    restart_exit = 1 =>
        /\ ~Ending => pc \in AfterRestartPcs
        /\ (Ending /\ raised = "SystemExit") =>
               /\ "grace" \in Steps(log)
               /\ "es_connect" \in Steps(log)
        /\ (Exited /\ raised = "SystemExit" /\ "sample" \in Steps(log)) =>
               (exit_code = 0 <=> new_docs > 0)

\* A run whose restart failed and that still monitored to Success.
C11_Witness ==
    /\ restart_exit = 1
    /\ Exited
    /\ outcome = "Success"
    /\ exit_code = 0
    /\ "sample" \in Steps(log)

\* C12: when the SSH connection cannot be established the run is over with
\* exit code 1, and the connection attempt is the only step it ever took:
\* no remote command of the setup steps, no Elasticsearch connection and no
\* query.
C12_NoSshNoRun ==
    connect_exit = 1 =>
        /\ Exited
        /\ exit_code = 1
        /\ log = <<"connect">>
        /\ ~es_ok
        /\ ~current_bound
        /\ closes = 0

\* The connection attempt has failed.
C12_Witness ==
    /\ connect_exit = 1
    /\ ~ssh_open
    /\ pc = "exited"


\* The greatest element of a non-empty set of numbers.
Maximum(S) == CHOOSE m \in S : \A x \in S : x <= m

\* A loop iteration has just run, from its sample to its exit test.
TickTaken ==
    /\ pc = "mon_query"
    /\ pc' \in {"mon_sleep", "verdict"}
    /\ current_time' = now
    /\ outcome' # "Interrupted"

\* C13 (values): while the real count has never decreased (a failed query
\* reading 0), max_count equals the greatest of initial_count and every
\* sample taken so far.
C13_MaxCountIsMaximum ==
    (nondecr /\ seen # {}) =>
        /\ initial_count \in seen
        /\ max_count = Maximum(seen)

\* C13: over every sample sequence whose real counts never decrease (a
\* failed query reading 0), max_count is the greatest of initial_count and
\* the samples taken so far and never decreases from one step to the next,
\* and a tick whose sample exceeds stable_count sets stable_since to that
\* tick's time and stable_count to the sample.
C13_WindowInvariants ==
    /\ [](C13_MaxCountIsMaximum)
    /\ [][nondecr' =>
            /\ max_count' >= max_count
            /\ (TickTaken /\ current_count' > stable_count) =>
                   /\ stable_since' = current_time'
                   /\ stable_count' = current_count']_vars

\* Growth, a failed query after it, and a further rise: the window was
\* restarted by a sample above stable_count while max_count stood above a
\* sample.
C13_Witness ==
    /\ nondecr
    /\ failures = 1
    /\ ~init_failed
    /\ ~last_failed
    /\ initial_count > 0
    /\ 0 \in seen
    /\ Cardinality(seen) = 3
    /\ stable_count = current_count
    /\ stable_count > initial_count
    /\ stable_since = current_time
    /\ max_count = current_count


\* The files of the host that the link step is to link: regular files
\* under a directory named split_logs whose name does not end in
\* ".original".
SourceIndices ==
    { i \in DOMAIN files :
        /\ files[i].type = "f"
        /\ \E k \in 1..(Len(files[i].path) - 1) :
               files[i].path[k] = StrSplitLogs
        /\ LET name == files[i].path[Len(files[i].path)]
           IN  \/ Len(name) < Len(StrOriginalSuffix)
               \/ SubSeq(name, Len(name) - Len(StrOriginalSuffix) + 1,
                         Len(name)) # StrOriginalSuffix }

\* Their distinct base names.
SourceNames == { files[i].path[Len(files[i].path)] : i \in SourceIndices }

\* The file of that base name that find lists last.
LastSource(name) ==
    LET is == { i \in SourceIndices :
                  files[i].path[Len(files[i].path)] = name }
    IN  files[CHOOSE i \in is : \A j \in is : j <= i].path

\* The second invocation has run its link step; the marker file is there,
\* --force-download is not given, and in both invocations the probe command
\* was answered and the link command met no fault of the host's.
TwoRunsOnDownloadedHost ==
    /\ run = 2
    /\ first # << >>
    /\ marker
    /\ ~force_download
    /\ first[1].probe_exit = 0
    /\ first[1].symlink_exit = 0
    /\ probe_exit = 0
    /\ symlink_exit # -1
    /\ ~link_fault

\* C14: two invocations in a row on a host whose logs are downloaded,
\* without --force-download and with the host's files unchanged in
\* between: neither invocation issues the download command, the second
\* link step succeeds like the first, and the farm after it is the farm
\* the first invocation left (same names, same targets).
C14_SetupIsIdempotent ==
    TwoRunsOnDownloadedHost =>
        /\ "download" \notin Steps(first[1].log)
        /\ "download" \notin Steps(log)
        /\ symlink_exit = 0
        /\ farm = first[1].farm

\* Two invocations on a host with colliding base names and a farm that
\* held stale links before the first.
C14_Witness ==
    /\ TwoRunsOnDownloadedHost
    /\ pc = "grace"
    /\ Cardinality(SourceIndices) > Cardinality(SourceNames)
    /\ DOMAIN farm # SourceNames

\* C15: after a link step that met no fault of the host's, the step has
\* succeeded (colliding base names included), the farm holds under each
\* distinct base name of the source files a link to the file of that name
\* processed last, and it holds no other link than those that were there
\* before, unchanged.
C15_OneLinkPerBaseName ==
    (symlink_exit # -1 /\ ~link_fault) =>
        /\ symlink_exit = 0
        /\ \A name \in SourceNames :
               /\ name \in DOMAIN farm
               /\ farm[name] = LastSource(name)
        /\ \A name \in DOMAIN farm \ SourceNames :
               /\ name \in DOMAIN StaleFarm
               /\ farm[name] = StaleFarm[name]

\* A link step over three source files, two of them with one base name, on
\* a farm that already held a link of that name: one link for the name,
\* to the later of the two files.
C15_Witness ==
    /\ symlink_exit = 0
    /\ ~link_fault
    /\ run = 1
    /\ Cardinality(SourceIndices) = 3
    /\ Cardinality(SourceNames) = 2
    /\ NameXaa \in DOMAIN farm
    /\ NameLog \in DOMAIN farm
    /\ farm[NameXaa] = <<DirLinux, StrSplitLogs, NameXaa>>


\* Scenario A: an initial sample of 0, then in-loop samples 0, 100, 250,
\* 250, 250.
ScenarioA == <<0, 0, 100, 250, 250, 250>>

\* C16: in Scenario A with --check-interval 10 and --stable-time 20 the
\* session ends with Success and 250 new documents at the last sample (the
\* third reading of 250), and at no earlier sample: Success is never there
\* before the sixth query and always there once it has been made.
C16_ScenarioASucceedsAtLastSample ==
    (scripted /\ feed = ScenarioA) =>
        /\ outcome = "Success" => (fed = 6 /\ new_docs = 250)
        /\ fed = 6 =>
               /\ outcome = "Success"
               /\ new_docs = 250
               /\ current_count = 250
               /\ current_time - stable_since >= stable_time

\* Scenario A run with its samples exactly 10 seconds apart: Success 40
\* seconds after the first in-loop sample, 20 seconds after the first 250.
C16_Witness ==
    /\ scripted
    /\ feed = ScenarioA
    /\ outcome = "Success"
    /\ new_docs = 250
    /\ current_time - mon_start = 40
    /\ current_time - stable_since = 20
    /\ exit_code = 0


Smaller(a, b) == IF a < b THEN a ELSE b

\* Seconds since start_time.
S3Elapsed == s3_now - s3_start

\* Some poll listed a key that the listing taken at start did not hold.
S3NewKeyListed ==
    \E i \in DOMAIN s3_polls : s3_polls[i].keys \ s3_initial_keys # {}

\* C18: check_s3_data.py with --wait W > 0 returns 0 only if a poll listed
\* a key absent from the listing taken at start (and, that listing having
\* been answered, only if the bucket holds an object that was not there at
\* start); a run in which no poll listed such a key returns 1, and it
\* ends: every poll starts before W seconds have elapsed and at least 10
\* seconds after the poll before it, a sleep starts before W seconds have
\* elapsed and lasts min(10, remaining) > 0, and once W seconds have
\* elapsed the program is at its loop test, in check_s3_data (a new key
\* having been listed) or done.
C18_WaitForNewKeys ==
    s3_wait > 0 =>
        /\ s3_rc = 0 => S3NewKeyListed
        /\ (s3_rc = 0 /\ s3_initial_keys = s3_keys0) =>
               DOMAIN s3_bucket \ s3_keys0 # {}
        /\ (s3_pc = "done" /\ ~S3NewKeyListed) => s3_rc = 1
        /\ \A i \in DOMAIN s3_polls : s3_polls[i].at < s3_wait
        /\ \A i \in 2..Len(s3_polls) :
               s3_polls[i].at - s3_polls[i - 1].at >= 10
        /\ s3_pc = "sleep" =>
               /\ S3Elapsed < s3_wait
               /\ s3_wait_time = Smaller(10, s3_wait - S3Elapsed)
               /\ s3_wait_time > 0
        /\ S3Elapsed >= s3_wait => s3_pc \in {"test", "check", "done"}

\* A wait of 25 s on a bucket that held objects at start and got no new
\* one: three polls, two sleeps of 10 s and a last one of the remainder,
\* return value 1.
C18_Witness ==
    /\ s3_wait = 25
    /\ s3_keys0 # {}
    /\ s3_initial_keys = s3_keys0
    /\ Len(s3_polls) = 3
    /\ s3_wait_time > 0
    /\ s3_wait_time < 10
    /\ S3Elapsed >= s3_wait
    /\ s3_pc = "done"
    /\ s3_rc = 1

\* C19: check_s3_data passes to check_object_content exactly the
\* min(max_count, n) objects with the greatest LastModified among the n
\* objects under the prefix, in descending LastModified order.
C19_InspectsMostRecent ==
    (s3_pc = "done" /\ s3_count # -1 /\ ~s3_list_failed) =>
        LET m == Smaller(s3_count, Cardinality(DOMAIN s3_bucket))
            chosen == { s3_inspected[i] : i \in DOMAIN s3_inspected }
        IN  /\ Len(s3_inspected) = m
            /\ Cardinality(chosen) = m
            /\ chosen \subseteq DOMAIN s3_bucket
            /\ \A i, j \in DOMAIN s3_inspected :
                   i < j => s3_bucket[s3_inspected[i]]
                                >= s3_bucket[s3_inspected[j]]
            /\ \A k \in chosen, x \in DOMAIN s3_bucket \ chosen :
                   s3_bucket[k] >= s3_bucket[x]


\* Seconds since start_time.
EcElapsed == ec_now - ec_start

\* C20: check_elastic_data.py, once connected.  A poll finds data exactly
\* when it raises no error and sees a matching index with a positive
\* document count; a poll that raises counts as no data and does not end
\* the wait.  With --wait W > 0 the exit code is 0 exactly when the latest
\* poll found data, and no earlier poll did; the exit code is 1 only once
\* W seconds have elapsed; polls start before W and at least 10 seconds
\* apart; a sleep is min(10, remaining), so never longer than the
\* remaining time.  With W = 0 there is exactly one poll, and the exit code
\* is 0 iff it found data.
C20_WaitForData ==
    Len(ec_polls) > 0 =>
        /\ \A i \in DOMAIN ec_polls :
               /\ ec_polls[i].found <=>
                      /\ ~ec_polls[i].raised
                      /\ ec_polls[i].indices
                      /\ ec_polls[i].docs > 0
               /\ ec_polls[i].found => (i = Len(ec_polls) /\ ec_rc = 0)
               /\ ec_polls[i].at < ec_wait \/ ec_wait = 0
        /\ ec_rc = 0 => ec_polls[Len(ec_polls)].found
        /\ \A i \in 2..Len(ec_polls) :
               ec_polls[i].at - ec_polls[i - 1].at >= 10
        /\ ec_wait > 0 =>
               /\ ec_rc = 1 => EcElapsed >= ec_wait
               /\ ec_pc = "sleep" =>
                      /\ ec_wait_time = Smaller(10, ec_wait - EcElapsed)
                      /\ ec_wait_time > 0
               /\ EcElapsed >= ec_wait => ec_pc \in {"test", "done"}
        /\ ec_wait = 0 =>
               /\ Len(ec_polls) = 1
               /\ ec_pc = "done"
               /\ ec_rc = 0 <=> ec_polls[1].found

\* A wait of 25 s whose first poll raised, whose second saw an empty index
\* and whose third, at least 20 s in, found documents: exit code 0.
C20_Witness ==
    /\ ec_wait = 25
    /\ Len(ec_polls) = 3
    /\ ec_polls[1].raised
    /\ ec_polls[2].indices
    /\ ec_polls[2].docs = 0
    /\ ~ec_polls[2].raised
    /\ ec_polls[3].found
    /\ ec_polls[3].at >= 20
    /\ ec_rc = 0
    /\ ec_pc = "done"

\* ---------------------------------------------- the sample window, continued
\* The monitor has returned a value to main.
Returned == outcome \in {"Success", "Interrupted"}

\* C21: when the real document count of the index pattern is the same
\* positive value at every query of the session (nothing is ingested), the
\* monitor never reports Success and never returns new_documents > 0,
\* whichever count queries fail and are read as 0, the query for
\* initial_count included.
C21_NoSuccessOnStaticIndex ==
    (static /\ real_count > 0 /\ Returned) =>
        /\ outcome # "Success"
        /\ new_docs <= 0

\* A single count query failed, inside the loop, and the real count never
\* went down.
OneFailedTick == nondecr /\ ~init_failed /\ failures = 1

\* The stability window is running on the real count: the latest increase
\* was sampled and recorded before the failed query.
WindowOnRealCount ==
    /\ stable_count = real_count
    /\ stable_count > initial_count

\* The tick after the failed tick, answered, with the real count unchanged.
RecoveryTick ==
    /\ TickTaken
    /\ OneFailedTick
    /\ WindowOnRealCount
    /\ last_failed
    /\ ~last_failed'
    /\ real_count' = real_count

\* C22: the stability window is measured from the last real increase of
\* the document count: a failed count query (read as 0) resets stable_since
\* neither at its own tick nor at the following answered tick, so a single
\* failed tick never postpones Success beyond the first answered tick at or
\* after (time of the last real increase + stable_time).
C22_FailedTickKeepsWindow ==
    /\ [][(TickTaken /\ nondecr /\ last_failed')
            => stable_since' = stable_since]_vars
    /\ [][RecoveryTick => stable_since' = stable_since]_vars
    /\ [][(RecoveryTick /\ now - stable_since >= stable_time)
            => outcome' = "Success"]_vars

\* C23: for real counts that never decrease, with any query possibly
\* failing and read as 0, the new_documents value the monitor returns is
\* never negative, on the Success path and on the interrupt path alike.
C23_NewDocumentsNeverNegative ==
    (nondecr /\ Returned) => new_docs >= 0

\* main's `else` branch after monitoring ran: "No new documents were
\* ingested" and sys.exit(1).
NoNewDocumentsExit ==
    /\ raised = "SystemExit"
    /\ pending = 1
    /\ "sample" \in Steps(log)

\* C24: whenever the monitor leaves its loop through the stability
\* condition the value it returns is >= 1; so main's "No new documents"
\* exit (exit code 1 after monitoring) is taken only after an interrupted
\* monitoring session.
C24_StabilityExitReturnsPositive ==
    /\ outcome = "Success" => new_docs >= 1
    /\ NoNewDocumentsExit => outcome = "Interrupted"

\* The smallest stability exit: one new document, no dwell time asked for,
\* and the run ended with exit code 0.
C24_Witness ==
    /\ outcome = "Success"
    /\ new_docs = 1
    /\ stable_time = 0
    /\ Exited
    /\ exit_code = 0

\* The index of the sample with which the latest run of equal samples of
\* the script began, up to sample n.
FlatFrom(n) ==
    CHOOSE j \in 1..n :
        /\ \A k \in j..n : feed[k] = feed[n]
        /\ \A i \in 1..(j - 1) : \E k \in i..n : feed[k] # feed[n]

\* The samples have been constant, at a value above initial_count, for at
\* least stable_time: consecutive ticks lie at least check_interval apart.
ConstantTailHeld ==
    /\ scripted
    /\ current_bound
    /\ feed[fed] > initial_count
    /\ (fed - FlatFrom(fed)) * check_interval >= stable_time

\* C25: for every sample sequence that from some tick on is constant at a
\* value strictly greater than initial_count the monitor eventually reports
\* Success, also when earlier samples were higher than that final value.
\* In finite form: once the constant samples have been held for
\* stable_time, the uninterrupted monitor has reported Success.
C25_SuccessOnConstantTail ==
    (ConstantTailHeld /\ outcome # "Interrupted") => outcome = "Success"

\* Why no later tick of the constant tail helps: a tick whose sample equals
\* the previous one leaves stable_count and last_count as they are, so
\* once they differ the exit condition stays false for as long as the
\* samples stay constant.  (Holds on Spec and on SpecScript.)
FlatTickKeepsGap ==
    [][(TickTaken /\ current_count' = last_count
            /\ stable_count # last_count)
        => /\ outcome' # "Success"
           /\ stable_count' = stable_count
           /\ last_count' = last_count]_vars

\* C26: for samples that never decrease and with no failed query,
\* stable_count equals last_count (the most recent sample) at the end of
\* every loop iteration; the exit condition's conjunct current_count =
\* stable_count is then always true, and Success is decided by
\* current_count > initial_count and the dwell time alone.
C26_StableCountIsLastCount ==
    CleanSamples =>
        /\ stable_count = last_count
        /\ (current_bound /\ outcome # "Interrupted") =>
            /\ current_count = stable_count
            /\ outcome = "Success" <=>
                /\ current_count > initial_count
                /\ current_time - stable_since >= stable_time

\* A session whose samples rose twice, with no failed query, and then
\* stayed flat for a positive stable_time until Success.
C26_Witness ==
    /\ CleanSamples
    /\ Cardinality(seen) = 3
    /\ stable_time > 0
    /\ stable_count = last_count
    /\ outcome = "Success"

====
